---- MODULE Spec2Model ----
(***************************************************************************)
(* ToastSpeech API (src/main.py): signup, signin and "me" over a hosted    *)
(* identity/storage provider, with a JWT issued around them.               *)
(*                                                                         *)
(* The provider (Supabase auth + the tables "users" and                    *)
(* "subscription_usage") is the state.  Every provider call of a handler   *)
(* is one step, so that concurrent requests interleave between the calls.  *)
(*                                                                         *)
(* What the provider does is taken from how main.py uses it:               *)
(*   - auth.admin.create_user and auth.sign_in_with_password answer with   *)
(*     a user or without one (main.py tests `not auth.user`); an identity  *)
(*     is refused when its email is already registered;                    *)
(*   - insert(...).execute() stores the row or raises; main.py catches     *)
(*     nothing, so a raise ends the request with FastAPI's 500;            *)
(*   - select(...).single().execute() raises when no row matches.  This is *)
(*     what get_current_user relies on to answer 401 for a missing         *)
(*     account (its only handling is `except Exception`), and it is the    *)
(*     PostgREST client's behaviour; signin makes the same call outside    *)
(*     any try block.                                                      *)
(* The profile's optional fields (gender, age_group, profession, purposes, *)
(* custom_purpose) are copied through unread and are left out, and so is   *)
(* created_at, which no decision reads.                                    *)
(***************************************************************************)
EXTENDS Integers, FiniteSets, TLC

VARIABLES
    now,                 \* the wall clock, in ticks
    auth_users,          \* the provider's identities
    users,               \* table "users"
    subscription_usage,  \* table "subscription_usage"
    req,                 \* the requests in flight, one per worker
    last,                \* the response sent last, with what was asked
    issued,              \* token service: the token issued last, and when
    validated            \* token service: the outcome of the last validation

vars == <<now, auth_users, users, subscription_usage, req, last, issued, validated>>

(***************************************************************************)
(* Bounds                                                                  *)
(***************************************************************************)
TicksPerSecond == 2   \* resolution of the clock
MaxFineTicks == 3     \* single ticks the clock takes between two leaps
MaxLifetimes == 1     \* leaps of one token lifetime the clock takes

Emails == {"a@x.com", "b@x.com"}
Passwords == {"pw1", "pw2"}
Names == {"A"}
Reqs == {"w1", "w2"}               \* the workers, one request each at a time
Ids == 1 .. Cardinality(Emails)    \* ids the provider hands out; 0 is "no id"

(***************************************************************************)
(* Configuration                                                           *)
(***************************************************************************)
SECRET_KEY == "super-secret-key"
ACCESS_TOKEN_EXPIRE_MINUTES == 30

TokenLifetimeTicks == ACCESS_TOKEN_EXPIRE_MINUTES * 60 * TicksPerSecond

\* The clock starts a quarter of an hour before a year ends.
LocalDate(t) ==
    IF t < 15 * 60 * TicksPerSecond
    THEN [month |-> 12, year |-> 2024]
    ELSE [month |-> 1, year |-> 2025]

\* timegm(d.utctimetuple()): a datetime as whole seconds, the fraction dropped.
timegm(t) == t \div TicksPerSecond

(***************************************************************************)
(* Tokens                                                                  *)
(***************************************************************************)
NoToken == [fmt |-> "none", key |-> "", sub |-> 0, email |-> "", exp |-> 0]
Garbage == [fmt |-> "garbage", key |-> "", sub |-> 0, email |-> "", exp |-> 0]

\* jwt.encode: the claims signed with `key`; the datetime "exp" becomes seconds.
jwt_encode(sub, email, expire, key) ==
    [fmt |-> "jws", key |-> key, sub |-> sub, email |-> email, exp |-> timegm(expire)]

\* create_token, were the subject left out of the claims.
create_token_without_sub(sub, email, t) ==
    LET expire == t + TokenLifetimeTicks
    IN  jwt_encode(0, email, expire, SECRET_KEY)

create_token(sub, email, t) ==
    LET expire == t + TokenLifetimeTicks
    IN  jwt_encode(sub, email, expire, SECRET_KEY)

\* jwt.decode, were it to reject a token in the second its "exp" names.
jwt_decode_expired_at_exp(tok, t) ==
    IF tok.fmt # "jws" THEN [ok |-> FALSE, sub |-> 0]
    ELSE IF tok.key # SECRET_KEY THEN [ok |-> FALSE, sub |-> 0]
    ELSE IF tok.exp <= timegm(t) THEN [ok |-> FALSE, sub |-> 0]
    ELSE [ok |-> TRUE, sub |-> tok.sub]

\* jwt.decode: JWTError for a token that does not parse, whose signature does
\* not verify, or whose "exp" is before the current second.
jwt_decode(tok, t) ==
    IF tok.fmt # "jws" THEN [ok |-> FALSE, sub |-> 0]
    ELSE IF tok.key # SECRET_KEY THEN [ok |-> FALSE, sub |-> 0]
    ELSE IF tok.exp < timegm(t) THEN [ok |-> FALSE, sub |-> 0]
    ELSE [ok |-> TRUE, sub |-> tok.sub]

\* validate (lines 92-95 of get_current_user): the subject of a token, or a failure.
validate(tok, t) ==
    LET payload == jwt_decode(tok, t)
    IN  IF ~payload.ok THEN [ok |-> FALSE, sub |-> 0]
        ELSE IF payload.sub = 0 THEN [ok |-> FALSE, sub |-> 0]
        ELSE payload

(***************************************************************************)
(* Responses                                                               *)
(***************************************************************************)
NoUser ==
    [id |-> 0, name |-> "", email |-> "",
     subscription_plan |-> "", subscription_status |-> ""]

UserResponse(row) ==
    [id |-> row.id, name |-> row.name, email |-> row.email,
     subscription_plan |-> row.subscription_plan,
     subscription_status |-> row.subscription_status]

HTTPException(status_code, detail) ==
    [status |-> status_code, detail |-> detail, access_token |-> NoToken, user |-> NoUser]

\* An exception no handler catches: FastAPI answers 500.
ServerError == HTTPException(500, "Internal Server Error")

TokenResponse(token, message, user) ==
    [status |-> 200, detail |-> message, access_token |-> token, user |-> user]

Idle == [op |-> "none", pc |-> "idle", name |-> "", email |-> "", password |-> "", user_id |-> 0]

NoRequest == [op |-> "none", email |-> "", presented |-> NoToken]

Answer(request, response) ==
    [op |-> request.op, email |-> request.email, presented |-> request.presented,
     status |-> response.status, detail |-> response.detail,
     access_token |-> response.access_token, user |-> response.user]

AskedBy(r) ==
    [op |-> req[r].op, email |-> req[r].email, presented |-> NoToken]

(***************************************************************************)
(* Provider                                                                *)
(***************************************************************************)
\* The pre-check, were its result never to hold a row.
users_by_email_none(e) == {u \in users : FALSE}

\* The pre-check, were it made against the identities instead of the accounts.
users_by_registered_email(e) == {a \in auth_users : a.email = e}

\* select(...).eq("email", e).execute(): the rows, possibly none.
users_by_email(e) == {u \in users : u.email = e}

\* select("*").eq("id", i): the rows .single() is to pick from.
users_by_id(i) == {u \in users : u.id = i}

\* create_user, were the provider to accept a registered email again.
EmailNeverRegistered(e) == \E a \in auth_users : FALSE

\* auth.admin.create_user: refused when the email is registered already.
EmailRegistered(e) == \E a \in auth_users : a.email = e

\* The id of the identity the provider creates next.
new_user_id == Cardinality(auth_users) + 1

\* auth.sign_in_with_password: the identities the credentials verify.
sign_in_with_password(e, p) == {a \in auth_users : a.email = e /\ a.password = p}

Init ==
    /\ now = 0
    /\ auth_users = {}
    /\ users = {}
    /\ subscription_usage = {}
    /\ req = [r \in Reqs |-> Idle]
    /\ last = Answer(NoRequest, HTTPException(0, ""))
    /\ issued = [sub |-> 0, email |-> "", at |-> 0, token |-> NoToken]
    /\ validated = [done |-> FALSE, ok |-> FALSE, sub |-> 0, at |-> 0]

(***************************************************************************)
(* The clock                                                               *)
(***************************************************************************)
\* One tick goes by.
Tick ==
    /\ now % (TokenLifetimeTicks - 1) < MaxFineTicks
    /\ now' = now + 1
    /\ UNCHANGED <<auth_users, users, subscription_usage, req, last, issued, validated>>

\* All but one tick of a token lifetime goes by.
Elapse ==
    /\ now \div (TokenLifetimeTicks - 1) < MaxLifetimes
    /\ now' = now + TokenLifetimeTicks - 1
    /\ UNCHANGED <<auth_users, users, subscription_usage, req, last, issued, validated>>

\* A token lifetime and a second go by: every token issued before has expired.
Expire ==
    /\ now \div TokenLifetimeTicks < MaxLifetimes
    /\ now' = now + TokenLifetimeTicks + TicksPerSecond
    /\ UNCHANGED <<auth_users, users, subscription_usage, req, last, issued, validated>>

(***************************************************************************)
(* POST /auth/signup                                                       *)
(***************************************************************************)
SignupAsked(e) == [op |-> "signup", email |-> e, presented |-> NoToken]

Respond(r, response) ==
    /\ last' = Answer(AskedBy(r), response)
    /\ req' = [req EXCEPT ![r] = Idle]

profile(user_id, name, email) ==
    [id |-> user_id, name |-> name, email |-> email,
     subscription_plan |-> "free", subscription_status |-> "active"]

\* The usage record, were the speech allowance left at zero.
usage_row_no_allowance(user_id, t) ==
    [user_id |-> user_id, month |-> LocalDate(t).month, year |-> LocalDate(t).year,
     speeches_limit |-> 0, speeches_used |-> 0,
     evaluations_limit |-> 1, evaluations_used |-> 0]

usage_row(user_id, t) ==
    [user_id |-> user_id, month |-> LocalDate(t).month, year |-> LocalDate(t).year,
     speeches_limit |-> 1, speeches_used |-> 0,
     evaluations_limit |-> 1, evaluations_used |-> 0]

\* Lines 109-111: the pre-check finds the email.
signup_email_in_use(r, n, e, p) ==
    /\ req[r].pc = "idle"
    /\ users_by_email(e) # {}
    /\ last' = Answer(SignupAsked(e), HTTPException(400, "Email already in use"))
    /\ UNCHANGED <<now, auth_users, users, subscription_usage, req, issued, validated>>

\* Lines 109-110: the pre-check finds nothing, the handler goes on to create_user.
signup_email_free(r, n, e, p) ==
    /\ req[r].pc = "idle"
    /\ users_by_email(e) = {}
    /\ req' = [req EXCEPT ![r] =
                 [op |-> "signup", pc |-> "create", name |-> n, email |-> e,
                  password |-> p, user_id |-> 0]]
    /\ UNCHANGED <<now, auth_users, users, subscription_usage, last, issued, validated>>

\* create_user answers without a user, were `auth.user` not tested: reading
\* auth.user.id raises.
signup_auth_unchecked(r) ==
    /\ req[r].pc = "create"
    /\ EmailRegistered(req[r].email)
    /\ Respond(r, ServerError)
    /\ UNCHANGED <<now, auth_users, users, subscription_usage, issued, validated>>

\* Lines 114-121: create_user answers without a user.
signup_auth_failed(r) ==
    /\ req[r].pc = "create"
    /\ EmailRegistered(req[r].email)
    /\ Respond(r, HTTPException(400, "Auth creation failed"))
    /\ UNCHANGED <<now, auth_users, users, subscription_usage, issued, validated>>

\* Lines 114-123: create_user answers with the new identity.
signup_auth_created(r) ==
    /\ req[r].pc = "create"
    /\ ~EmailRegistered(req[r].email)
    /\ auth_users' = auth_users \cup
           {[id |-> new_user_id, email |-> req[r].email, password |-> req[r].password]}
    /\ req' = [req EXCEPT ![r].pc = "insert_user", ![r].user_id = new_user_id,
                          ![r].password = ""]    \* the password is not read again
    /\ UNCHANGED <<now, users, subscription_usage, last, issued, validated>>

\* Lines 124-137: the profile is stored.
signup_insert_user(r) ==
    /\ req[r].pc = "insert_user"
    /\ users' = users \cup {profile(req[r].user_id, req[r].name, req[r].email)}
    /\ req' = [req EXCEPT ![r].pc = "insert_usage"]
    /\ UNCHANGED <<now, auth_users, subscription_usage, last, issued, validated>>

\* Line 137: the insert raises.
signup_insert_user_raises(r) ==
    /\ req[r].pc = "insert_user"
    /\ Respond(r, ServerError)
    /\ UNCHANGED <<now, auth_users, users, subscription_usage, issued, validated>>

\* Lines 140-158: the usage record is stored, the token issued, the answer sent.
signup_insert_usage(r) ==
    /\ req[r].pc = "insert_usage"
    /\ subscription_usage' = subscription_usage \cup {usage_row(req[r].user_id, now)}
    /\ Respond(r, TokenResponse(create_token(req[r].user_id, req[r].email, now),
                                "Signup successful",
                                UserResponse(profile(req[r].user_id, req[r].name, req[r].email))))
    /\ UNCHANGED <<now, auth_users, users, issued, validated>>

\* The usage insert raises, were the handler to delete the account again.
signup_insert_usage_rolls_back(r) ==
    /\ req[r].pc = "insert_usage"
    /\ users' = {u \in users : u.id # req[r].user_id}
    /\ Respond(r, ServerError)
    /\ UNCHANGED <<now, auth_users, subscription_usage, issued, validated>>

\* Lines 141-149: the insert raises.
signup_insert_usage_raises(r) ==
    /\ req[r].pc = "insert_usage"
    /\ Respond(r, ServerError)
    /\ UNCHANGED <<now, auth_users, users, subscription_usage, issued, validated>>

(***************************************************************************)
(* POST /auth/signin                                                       *)
(***************************************************************************)
SigninAsked(e) == [op |-> "signin", email |-> e, presented |-> NoToken]

\* Lines 162-168: the provider verifies nothing.
signin_invalid_credentials(r, e, p) ==
    /\ req[r].pc = "idle"
    /\ sign_in_with_password(e, p) = {}
    /\ last' = Answer(SigninAsked(e), HTTPException(401, "Invalid credentials"))
    /\ UNCHANGED <<now, auth_users, users, subscription_usage, req, issued, validated>>

\* Lines 162-170: the provider verifies an identity.
signin_verified(r, e, p) ==
    /\ req[r].pc = "idle"
    /\ \E a \in sign_in_with_password(e, p) :
          req' = [req EXCEPT ![r] =
                    [op |-> "signin", pc |-> "lookup", name |-> "", email |-> e,
                     password |-> "", user_id |-> a.id]]    \* the password is not read again
    /\ UNCHANGED <<now, auth_users, users, subscription_usage, last, issued, validated>>

\* Lines 171-183: .single() finds the one row.
signin_profile_found(r) ==
    /\ req[r].pc = "lookup"
    /\ Cardinality(users_by_id(req[r].user_id)) = 1
    /\ \E row \in users_by_id(req[r].user_id) :
          Respond(r, TokenResponse(create_token(req[r].user_id, req[r].email, now),
                                   "Signin successful", UserResponse(row)))
    /\ UNCHANGED <<now, auth_users, users, subscription_usage, issued, validated>>

\* Line 171: .single() finds no row and raises; nothing catches it, and the
\* test of line 173 is never reached.
signin_profile_missing(r) ==
    /\ req[r].pc = "lookup"
    /\ Cardinality(users_by_id(req[r].user_id)) # 1
    /\ Respond(r, ServerError)
    /\ UNCHANGED <<now, auth_users, users, subscription_usage, issued, validated>>

(***************************************************************************)
(* GET /auth/me                                                            *)
(***************************************************************************)
\* What a client can put behind "Bearer": a token this service issued at some
\* time for some subject, one signed with another key, or no token at all.
ExpiryValues ==
    {create_token(0, "", k * (TokenLifetimeTicks + TicksPerSecond)).exp : k \in 0 .. MaxLifetimes}

PresentedTokens ==
    {[fmt |-> "jws", key |-> SECRET_KEY, sub |-> s, email |-> "a@x.com", exp |-> x] :
        s \in Ids \cup {0}, x \in ExpiryValues}
    \cup {[fmt |-> "jws", key |-> "other-key", sub |-> 1, email |-> "a@x.com", exp |-> x] :
             x \in ExpiryValues}
    \cup {Garbage}

Unauthenticated == HTTPException(401, "Invalid or expired token")

\* /auth/me, were a missing account told apart from a bad token.
get_current_user_not_found(tok, t) ==
    LET v == validate(tok, t)
        rows == users_by_id(v.sub)
    IN  IF ~v.ok THEN Unauthenticated
        ELSE IF Cardinality(rows) # 1 THEN HTTPException(404, "User profile not found")
        ELSE [status |-> 200, detail |-> "", access_token |-> NoToken,
              user |-> UserResponse(CHOOSE row \in rows : TRUE)]

\* Lines 90-100 and 185-187: the answer of /auth/me to a bearer token.
get_current_user(tok, t) ==
    LET v == validate(tok, t)
        rows == users_by_id(v.sub)
    IN  IF ~v.ok THEN Unauthenticated
        ELSE IF Cardinality(rows) # 1 THEN Unauthenticated
        ELSE [status |-> 200, detail |-> "", access_token |-> NoToken,
              user |-> UserResponse(CHOOSE row \in rows : TRUE)]

me(tok) ==
    /\ last' = Answer([op |-> "me", email |-> "", presented |-> tok],
                      get_current_user(tok, now))
    /\ UNCHANGED <<now, auth_users, users, subscription_usage, req, issued, validated>>

(***************************************************************************)
(* The service                                                             *)
(***************************************************************************)
Next ==
    \/ Expire
    \/ \E r \in Reqs, n \in Names, e \in Emails, p \in Passwords : signup_email_in_use(r, n, e, p)
    \/ \E r \in Reqs, n \in Names, e \in Emails, p \in Passwords : signup_email_free(r, n, e, p)
    \/ \E r \in Reqs : signup_auth_failed(r)
    \/ \E r \in Reqs : signup_auth_created(r)
    \/ \E r \in Reqs : signup_insert_user(r)
    \/ \E r \in Reqs : signup_insert_user_raises(r)
    \/ \E r \in Reqs : signup_insert_usage(r)
    \/ \E r \in Reqs : signup_insert_usage_raises(r)
    \/ \E r \in Reqs, e \in Emails, p \in Passwords : signin_invalid_credentials(r, e, p)
    \/ \E r \in Reqs, e \in Emails, p \in Passwords : signin_verified(r, e, p)
    \/ \E r \in Reqs : signin_profile_found(r)
    \/ \E r \in Reqs : signin_profile_missing(r)
    \/ \E tok \in PresentedTokens \cup {last.access_token} : me(tok)

Spec == Init /\ [][Next]_vars

(***************************************************************************)
(* The token service on its own: issue, let time pass, validate            *)
(***************************************************************************)
Issue(sub, email) ==
    /\ issued' = [sub |-> sub, email |-> email, at |-> now,
                  token |-> create_token(sub, email, now)]
    /\ validated' = [done |-> FALSE, ok |-> FALSE, sub |-> 0, at |-> 0]
    /\ UNCHANGED <<now, auth_users, users, subscription_usage, req, last>>

Validate ==
    /\ issued.token # NoToken
    /\ validated' = [done |-> TRUE, ok |-> validate(issued.token, now).ok,
                     sub |-> validate(issued.token, now).sub, at |-> now]
    /\ UNCHANGED <<now, auth_users, users, subscription_usage, req, last, issued>>

NextToken ==
    \/ Tick
    \/ Elapse
    \/ \E sub \in Ids \cup {0}, email \in Emails : Issue(sub, email)
    \/ Validate

SpecToken == Init /\ [][NextToken]_vars

(***************************************************************************)
(* C2                                                                      *)
(***************************************************************************)
\* C2 as stated, for the subjects the handlers issue tokens for: validating
\* issue(subject, email) returns the subject at any time strictly before
\* issuance + TTL and fails at any time after issuance + TTL.
C2_AsStated ==
    validated.done /\ issued.sub # 0 =>
        /\ validated.at < issued.at + TokenLifetimeTicks
              => validated.ok /\ validated.sub = issued.sub
        /\ validated.at > issued.at + TokenLifetimeTicks => ~validated.ok

\* C2, amended: for a non-empty subject, validation returns the subject at any
\* time strictly before issuance + TTL and fails from one second after
\* issuance + TTL on; a token without a subject never validates.
C2_RoundTripWithinTTL ==
    validated.done =>
        /\ validated.ok => validated.sub = issued.sub /\ issued.sub # 0
        /\ issued.sub # 0 /\ validated.at < issued.at + TokenLifetimeTicks => validated.ok
        /\ validated.at >= issued.at + TokenLifetimeTicks + TicksPerSecond => ~validated.ok

\* A token that still validates although its TTL has elapsed.
C2_Witness ==
    /\ validated.done
    /\ validated.ok
    /\ validated.at > issued.at + TokenLifetimeTicks

(***************************************************************************)
(* Claims about the handlers                                               *)
(***************************************************************************)
Stores == <<auth_users, users, subscription_usage>>

AccountWithEmail(e) == \E u \in users : u.email = e

IdentityWithEmail(e) == \E a \in auth_users : a.email = e

\* A signup request for e arrives at worker r and its pre-check is made.
SignupArrives(r, n, e, p) == signup_email_in_use(r, n, e, p) \/ signup_email_free(r, n, e, p)

\* The request of worker r ends in this step.
Ends(r) == req[r].pc # "idle" /\ req'[r].pc = "idle"

\* A response is sent in this step.
Answered == last' # last

DuplicateEmail(e) ==
    [op |-> "signup", email |-> e, presented |-> NoToken, status |-> 400,
     detail |-> "Email already in use", access_token |-> NoToken, user |-> NoUser]

\* C1, the answers: a successful signup returns a token that, while it has not
\* expired, /auth/me resolves to the account with the registration's email and
\* with the token's subject as id.
C1_TokenResolves ==
    last.op = "signup" /\ last.status = 200 =>
        LET tok == last.access_token
            ans == get_current_user(tok, now)
        IN  /\ tok.fmt = "jws" /\ tok.sub # 0
            /\ tok.exp >= now \div TicksPerSecond =>
                  /\ ans.status = 200
                  /\ ans.user.email = last.email
                  /\ ans.user.id = tok.sub

\* C1, success: a signup fails only with "Email already in use" when an account
\* has the email, with "Auth creation failed" when an identity has it, or with
\* 500 when a write raised; a fresh email with working writes ends in 200.
C1_FailsOnlyWhenNotFresh ==
    Answered /\ last'.op = "signup" =>
        \/ last'.status = 200 /\ last'.access_token # NoToken
        \/ /\ last'.status = 400 /\ last'.detail = "Email already in use"
           /\ AccountWithEmail(last'.email)
        \/ /\ last'.status = 400 /\ last'.detail = "Auth creation failed"
           /\ IdentityWithEmail(last'.email)
        \/ /\ last'.status = 500
           /\ \E r \in Reqs : Ends(r) /\ req[r].pc \in {"insert_user", "insert_usage"}

\* C1: for a registration with a fresh email signup succeeds, and /auth/me with
\* the returned token, before it expires, returns the account view with the
\* registration's email and the token's subject as id.
C1_SignupThenWhoAmI == []C1_TokenResolves /\ [][C1_FailsOnlyWhenNotFresh]_vars

C1_Witness ==
    /\ last.op = "signup" /\ last.status = 200
    /\ last.access_token.exp >= now \div TicksPerSecond
    /\ get_current_user(last.access_token, now).user.email = last.email

\* C3: a signup whose email belongs to an account is answered 400 "Email already
\* in use", creates no identity, writes no account and no usage record, issues no
\* token, and is over.
C3_DuplicateEmailNoEffect ==
    [][\A r \in Reqs, n \in Names, e \in Emails, p \in Passwords :
          SignupArrives(r, n, e, p) /\ AccountWithEmail(e) =>
              /\ last' = DuplicateEmail(e)
              /\ UNCHANGED Stores
              /\ req' = req]_vars

C3_Witness ==
    /\ last = DuplicateEmail("a@x.com")
    /\ AccountWithEmail("a@x.com")

\* C4 as stated: a signin with a wrong password is answered 401, a signin the
\* provider verifies for an identity without account record is answered 404, and
\* neither is given a token.
C4_AsStated ==
    [][/\ \A r \in Reqs, e \in Emails, p \in Passwords :
             (signin_invalid_credentials(r, e, p) \/ signin_verified(r, e, p))
             /\ ~(\E a \in auth_users : a.email = e /\ a.password = p)
             => last'.status = 401 /\ last'.access_token = NoToken /\ req' = req
       /\ \A r \in Reqs :
             Ends(r) /\ req[r].op = "signin" /\ ~(\E u \in users : u.id = req[r].user_id)
             => last'.status = 404 /\ last'.access_token = NoToken]_vars

\* The causes of a refusal: the token does not parse or verify, has expired,
\* has no subject, or names a subject without account.
NotAToken(tok) == tok.fmt # "jws" \/ tok.key # SECRET_KEY

Expired(tok) == tok.exp < now \div TicksPerSecond

NoAccount(tok) == ~(\E u \in users : u.id = tok.sub)

\* Every such token is answered with the one 401.
C5_OneAnswer ==
    \A tok \in PresentedTokens \cup {last.access_token} :
        NotAToken(tok) \/ Expired(tok) \/ tok.sub = 0 \/ NoAccount(tok) =>
            get_current_user(tok, now) =
                [status |-> 401, detail |-> "Invalid or expired token",
                 access_token |-> NoToken, user |-> NoUser]

\* C5: /auth/me gives one and the same answer, 401 "Invalid or expired token",
\* to a token that does not parse or verify, to an expired token, to a token
\* without subject and to a valid token whose subject has no account.
C5_SameUnauthenticated ==
    /\ C5_OneAnswer
    /\ last.op = "me" =>
          /\ last.status \in {200, 401}
          /\ last.status = 401 =>
                last.detail = "Invalid or expired token" /\ last.user = NoUser

\* /auth/me has refused a valid token whose subject has no account, while an
\* account of another subject exists.
C5_Witness ==
    /\ last.op = "me" /\ last.status = 401
    /\ ~NotAToken(last.presented) /\ ~Expired(last.presented)
    /\ last.presented.sub # 0 /\ NoAccount(last.presented)
    /\ users # {}

\* C6, each successful signup: the step that answers 200 leaves an account keyed
\* by the new identity's id, plan "free", status "active", a usage record for
\* that id and the month and year of the clock with limits 1 and counts 0, and
\* a token whose subject is that id.
C6_SignupLeaves ==
    \A r \in Reqs :
        Ends(r) /\ req[r].op = "signup" /\ last'.status = 200 =>
            \E a \in auth_users' :
                /\ a.email = req[r].email
                /\ last'.access_token.sub = a.id
                /\ \E u \in users' :
                      /\ u.id = a.id /\ u.email = a.email
                      /\ u.subscription_plan = "free"
                      /\ u.subscription_status = "active"
                /\ [user_id |-> a.id,
                    month |-> LocalDate(now).month, year |-> LocalDate(now).year,
                    speeches_limit |-> 1, speeches_used |-> 0,
                    evaluations_limit |-> 1, evaluations_used |-> 0]
                       \in subscription_usage'

\* C6, every state: usage records and token subjects carry ids of identities.
C6_JoinKey ==
    /\ \A g \in subscription_usage : \E a \in auth_users : a.id = g.user_id
    /\ last.access_token # NoToken => \E a \in auth_users : a.id = last.access_token.sub

\* C6: after every successful signup the account, its usage record and the
\* token's subject share the new identity's id, with the default plan, status
\* and limits; every usage record and every issued token names an identity.
C6_AccountUsageToken == []C6_JoinKey /\ [][C6_SignupLeaves]_vars

\* A signup answered 200 in the new year, the second identity's.
C6_Witness ==
    /\ last.op = "signup" /\ last.status = 200 /\ last.access_token.sub = 2
    /\ \E g \in subscription_usage : g.user_id = 2 /\ g.year = 2025

\* C7: when create_user yields no identity, the signup is answered 400 "Auth
\* creation failed" without a token and no account or usage record is written.
C7_ProviderAuthError ==
    [][\A r \in Reqs :
          req[r].pc = "create" /\ req'[r] # req[r] /\ auth_users' = auth_users =>
              /\ Ends(r)
              /\ last'.op = "signup" /\ last'.email = req[r].email
              /\ last'.status = 400 /\ last'.detail = "Auth creation failed"
              /\ last'.access_token = NoToken
              /\ users' = users /\ subscription_usage' = subscription_usage]_vars

\* A signup refused by create_user although no account has its email.
C7_Witness ==
    /\ last.op = "signup" /\ last.status = 400 /\ last.detail = "Auth creation failed"
    /\ ~AccountWithEmail(last.email)

C9_FailedUsageWrite ==
    \A r \in Reqs :
        Ends(r) /\ req[r].pc = "insert_usage" /\ subscription_usage' = subscription_usage =>
            /\ last'.op = "signup" /\ last'.status # 200
            /\ last'.access_token = NoToken
            /\ users' = users
            /\ \E u \in users' : u.id = req[r].user_id

\* An account without usage record that no request in flight is working on.
Orphan(u) ==
    /\ u \in users
    /\ ~(\E g \in subscription_usage : g.user_id = u.id)
    /\ ~(\E r \in Reqs : req[r].op = "signup" /\ req[r].user_id = u.id)

\* C9, persistence: an account left without usage record stays so.
C9_OrphanStays == \A u \in users : Orphan(u) => Orphan(u)'

\* C9: a failed usage write is not rolled back: no token is returned, the
\* account stays, and an account without usage record persists.
C9_NoRollback == [][C9_FailedUsageWrite /\ C9_OrphanStays]_vars

\* The request is over (500), the account is there, its usage record is not.
C9_Witness ==
    /\ last.op = "signup" /\ last.status = 500
    /\ \E u \in users : Orphan(u) /\ u.email = last.email

\* C10: a signup is answered "Email already in use" exactly when an account has
\* the email as the pre-check is made, whether or not an identity has it; if
\* none has, the request goes on to create_user.
C10_PreCheckReadsAccounts ==
    [][\A r \in Reqs, n \in Names, e \in Emails, p \in Passwords :
          SignupArrives(r, n, e, p) =>
              /\ (last' = DuplicateEmail(e) /\ req' = req) <=> AccountWithEmail(e)
              /\ ~AccountWithEmail(e) => req'[r].op = "signup" /\ req'[r].pc = "create"
                                         /\ req'[r].email = e /\ last' = last]_vars

\* After a signup that created the identity and failed to store the account, a
\* second signup for the email has passed the pre-check.
C10_Witness ==
    \E r \in Reqs :
        /\ req[r].op = "signup" /\ req[r].pc = "create"
        /\ IdentityWithEmail(req[r].email)
        /\ ~AccountWithEmail(req[r].email)
        /\ last.op = "signup" /\ last.status = 500 /\ last.email = req[r].email
        /\ \A q \in Reqs \ {r} : req[q].pc = "idle"

====
